---- MODULE Spec2Model ----
(***************************************************************************)
(* Rock-Paper-Scissors-Plus: the rules engine (game_logic.py) and the      *)
(* tool layer that owns the process-wide Match State (game_tools.py).      *)
(*                                                                         *)
(* Python strings that the code trims, lowercases or compares (moves and   *)
(* raw user input) are sequences of one-character strings, so that         *)
(* str.strip() and str.lower() are modelled by what they do.  Player       *)
(* identifiers, action tags and outcomes are only ever compared for        *)
(* equality and are plain TLA+ strings.                                    *)
(***************************************************************************)
EXTENDS Integers, Sequences, FiniteSets, TLC

VARIABLES
    game_state,   \* game_tools.game_state: the GameState the module global names
    call,         \* the last operation invoked, with its arguments
    ret,          \* the value that operation returned
    played,       \* how often each side has played bomb since the last reset
    cli,          \* the command-line process of main.py: where it is, and its locals
    hac           \* the running handle_api_call: where it is, and its locals

\* The variables that only the caller-side specifications move.
aux == <<played, cli, hac>>

vars == <<game_state, call, ret, played, cli, hac>>

----------------------------------------------------------------------------
(* Bounds of the model *)

\* Resolve is not guarded by game_over, so round_number is unbounded in the
\* code; the model stops resolving at MaxRounds (> 3, so play after the end
\* of the match is covered).
MaxRounds == 4

\* Longest run of whitespace put before and after a word of raw input.
MaxPad == 1

\* Largest max_retries handle_api_call is given.
MaxRetries == 3

----------------------------------------------------------------------------
(* Strings *)

ROCK     == <<"r", "o", "c", "k">>
PAPER    == <<"p", "a", "p", "e", "r">>
SCISSORS == <<"s", "c", "i", "s", "s", "o", "r", "s">>
BOMB     == <<"b", "o", "m", "b">>

\* Move = Literal["rock", "paper", "scissors", "bomb"]
Moves == {ROCK, PAPER, SCISSORS, BOMB}

\* Outcome = Literal["user", "bot", "draw"]
Outcomes == {"user", "bot", "draw"}

UpperChars == <<"A", "B", "C", "D", "E", "F", "G", "H", "I", "J", "K", "L", "M",
                "N", "O", "P", "Q", "R", "S", "T", "U", "V", "W", "X", "Y", "Z">>
LowerChars == <<"a", "b", "c", "d", "e", "f", "g", "h", "i", "j", "k", "l", "m",
                "n", "o", "p", "q", "r", "s", "t", "u", "v", "w", "x", "y", "z">>

\* Characters str.strip() removes (those the inputs of the model use).
Whitespace == {" ", "\t"}

ToLower ==
    [c \in {UpperChars[i] : i \in 1..Len(UpperChars)} |->
        LowerChars[CHOOSE i \in 1..Len(UpperChars) : UpperChars[i] = c]]

ToUpper ==
    [c \in {LowerChars[i] : i \in 1..Len(LowerChars)} |->
        UpperChars[CHOOSE i \in 1..Len(LowerChars) : LowerChars[i] = c]]

\* A cased letter goes to its lowercase form, any other character to itself.
lower_char(c) == IF c \in DOMAIN ToLower THEN ToLower[c] ELSE c

upper_char(c) == IF c \in DOMAIN ToUpper THEN ToUpper[c] ELSE c

\* str.lower()
lower(s) == [i \in 1..Len(s) |-> lower_char(s[i])]

RECURSIVE lstrip(_)
lstrip(s) ==
    IF s = <<>> THEN s
    ELSE IF Head(s) \in Whitespace THEN lstrip(Tail(s)) ELSE s

RECURSIVE rstrip(_)
rstrip(s) ==
    IF s = <<>> THEN s
    ELSE IF s[Len(s)] \in Whitespace THEN rstrip(SubSeq(s, 1, Len(s) - 1)) ELSE s

\* str.strip()
strip(s) == rstrip(lstrip(s))

----------------------------------------------------------------------------
(* Inputs *)

\* The four move names, a word that is no move, and a move name with
\* whitespace inside it.
Words == Moves \cup { <<"l", "i", "z", "a", "r", "d">>,
                      <<"r", "o", " ", "c", "k">> }

upper(s) == [i \in 1..Len(s) |-> upper_char(s[i])]

capitalize(s) == [i \in 1..Len(s) |-> IF i = 1 THEN upper_char(s[i]) ELSE s[i]]

Casings == {w : w \in Words} \cup {upper(w) : w \in Words} \cup {capitalize(BOMB)}

\* A run of k whitespace characters, beginning with `first` and alternating.
PadRun(first, k) ==
    [i \in 1..k |-> IF i % 2 = 1 THEN first
                    ELSE CHOOSE c \in Whitespace : c # first]

\* Raw user input: a word in some casing, with whitespace around it.
RawInputs ==
    {PadRun(" ", l) \o v \o PadRun("\t", r) : l \in 0..MaxPad, r \in 0..MaxPad, v \in Casings}

\* Action tags given to update_game_state_tool.
ActionTags == {"reset", "get_state", "Reset"}

----------------------------------------------------------------------------
(* game_logic.py *)

\* GameState(): the dataclass defaults.
GameState ==
    [round_number   |-> 0,
     user_score     |-> 0,
     bot_score      |-> 0,
     user_bomb_used |-> FALSE,
     bot_bomb_used  |-> FALSE,
     game_over      |-> FALSE]

\* Variant of is_valid_move that compares without lowercasing.
is_valid_move_nolower(move) == move \in Moves

is_valid_move(move) == lower(move) \in Moves

normalize_move(move) == lower(move)

\* Variant of can_use_bomb that answers for the user when the player is unknown.
can_use_bomb_fallback(player, state) ==
    IF player = "bot" THEN ~state.bot_bomb_used
    ELSE ~state.user_bomb_used

can_use_bomb(player, state) ==
    IF player = "user" THEN ~state.user_bomb_used
    ELSE IF player = "bot" THEN ~state.bot_bomb_used
    ELSE FALSE

\* wins = {"rock": "scissors", "scissors": "paper", "paper": "rock"}
wins(m) ==
    CASE m = ROCK     -> SCISSORS
      [] m = SCISSORS -> PAPER
      [] m = PAPER    -> ROCK

\* Variant of resolve_round that tests for a bomb before testing for equal moves.
resolve_round_bombtie(user_move, bot_move) ==
    IF user_move = BOMB THEN "user"
    ELSE IF bot_move = BOMB THEN "bot"
    ELSE IF user_move = bot_move THEN "draw"
    ELSE IF wins(user_move) = bot_move THEN "user"
    ELSE "bot"

\* Variant of resolve_round in which rock also beats paper.
resolve_round_userbias(user_move, bot_move) ==
    IF user_move = bot_move THEN "draw"
    ELSE IF user_move = BOMB THEN "user"
    ELSE IF bot_move = BOMB THEN "bot"
    ELSE IF wins(user_move) = bot_move \/ user_move = ROCK THEN "user"
    ELSE "bot"

resolve_round(user_move, bot_move) ==
    IF user_move = bot_move THEN "draw"
    ELSE IF user_move = BOMB /\ bot_move = BOMB THEN "draw"
    ELSE IF user_move = BOMB THEN "user"
    ELSE IF bot_move = BOMB THEN "bot"
    ELSE IF wins(user_move) = bot_move THEN "user"
    ELSE "bot"

\* Variant of update_score that gives both sides a point on a draw.
update_score_drawpoint(state, winner) ==
    IF winner = "user" THEN [state EXCEPT !.user_score = @ + 1]
    ELSE IF winner = "bot" THEN [state EXCEPT !.bot_score = @ + 1]
    ELSE [state EXCEPT !.user_score = @ + 1, !.bot_score = @ + 1]

\* Variant of update_score that credits the loser.
update_score_swapped(state, winner) ==
    IF winner = "user" THEN [state EXCEPT !.bot_score = @ + 1]
    ELSE IF winner = "bot" THEN [state EXCEPT !.user_score = @ + 1]
    ELSE state

update_score(state, winner) ==
    IF winner = "user" THEN [state EXCEPT !.user_score = @ + 1]
    ELSE IF winner = "bot" THEN [state EXCEPT !.bot_score = @ + 1]
    ELSE state

\* Variant of mark_bomb_used that assigns the flag (move == "bomb") on every call.
mark_bomb_used_assign(state, player, move) ==
    IF player = "user" THEN [state EXCEPT !.user_bomb_used = (move = BOMB)]
    ELSE IF player = "bot" THEN [state EXCEPT !.bot_bomb_used = (move = BOMB)]
    ELSE state

\* Variant of mark_bomb_used that spends both bombs when either side plays one.
mark_bomb_used_both(state, player, move) ==
    IF move = BOMB
    THEN [state EXCEPT !.user_bomb_used = TRUE, !.bot_bomb_used = TRUE]
    ELSE state

mark_bomb_used(state, player, move) ==
    IF move = BOMB
    THEN IF player = "user" THEN [state EXCEPT !.user_bomb_used = TRUE]
         ELSE IF player = "bot" THEN [state EXCEPT !.bot_bomb_used = TRUE]
         ELSE state
    ELSE state

\* Variant of is_game_over with > in place of >=.
is_game_over_after(state) == state.round_number > 3

is_game_over(state) == state.round_number >= 3

\* Variant of get_final_result with >= in place of >.
get_final_result_ge(state) ==
    IF state.user_score >= state.bot_score THEN "User wins"
    ELSE IF state.bot_score >= state.user_score THEN "Bot wins"
    ELSE "Draw"

get_final_result(state) ==
    IF state.user_score > state.bot_score THEN "User wins"
    ELSE IF state.bot_score > state.user_score THEN "Bot wins"
    ELSE "Draw"

----------------------------------------------------------------------------
(* game_tools.py *)

\* The moves get_bot_move can return in `state`, over every outcome of its
\* random.random() and random.choice() draws.
get_bot_move(state) ==
    LET early == IF ~state.bot_bomb_used /\ state.round_number = 1
                 THEN {BOMB}                   \* random.random() > 0.5
                 ELSE {}
        available(r) == IF ~state.bot_bomb_used /\ r
                        THEN {ROCK, PAPER, SCISSORS, BOMB}
                        ELSE {ROCK, PAPER, SCISSORS}
    IN  early \cup UNION {available(r) : r \in BOOLEAN}

\* Variant of validate_move without the bomb-availability test.
validate_move_nobombcheck(state, user_input) ==
    LET stripped == lower(strip(user_input)) IN
    IF ~is_valid_move(stripped)
    THEN [valid |-> FALSE, move |-> stripped,
          reason |-> "Invalid move '{user_input}'. Valid moves: rock, paper, scissors, bomb"]
    ELSE [valid |-> TRUE, move |-> normalize_move(stripped), reason |-> "Valid move"]

\* The dict validate_move returns.
validate_move(state, user_input) ==
    LET stripped == lower(strip(user_input)) IN
    IF ~is_valid_move(stripped)
    THEN [valid |-> FALSE, move |-> stripped,
          reason |-> "Invalid move '{user_input}'. Valid moves: rock, paper, scissors, bomb"]
    ELSE LET move == normalize_move(stripped) IN
         IF move = BOMB /\ ~can_use_bomb("user", state)
         THEN [valid |-> FALSE, move |-> move,
               reason |-> "You have already used your bomb!"]
         ELSE [valid |-> TRUE, move |-> move, reason |-> "Valid move"]

\* Variant of resolve_round_tool that tests is_game_over before the increment.
resolve_round_state_checkfirst(state, user_move, bot_move) ==
    LET s1 == mark_bomb_used(state, "user", user_move)
        s2 == mark_bomb_used(s1, "bot", bot_move)
        winner == resolve_round(user_move, bot_move)
        s3 == update_score(s2, winner)
        s4 == IF is_game_over(s3) THEN [s3 EXCEPT !.game_over = TRUE] ELSE s3
    IN  [s4 EXCEPT !.round_number = @ + 1]

\* Variant of resolve_round_tool that returns at once when the match is over.
resolve_round_state_guarded(state, user_move, bot_move) ==
    IF state.game_over THEN state
    ELSE LET s1 == mark_bomb_used(state, "user", user_move)
             s2 == mark_bomb_used(s1, "bot", bot_move)
             winner == resolve_round(user_move, bot_move)
             s3 == update_score(s2, winner)
             s4 == [s3 EXCEPT !.round_number = @ + 1]
         IN  IF is_game_over(s4) THEN [s4 EXCEPT !.game_over = TRUE] ELSE s4

\* The state resolve_round_tool leaves behind, given the bot move drawn.
resolve_round_state(state, user_move, bot_move) ==
    LET s1 == mark_bomb_used(state, "user", user_move)
        s2 == mark_bomb_used(s1, "bot", bot_move)
        winner == resolve_round(user_move, bot_move)
        s3 == update_score(s2, winner)
        s4 == [s3 EXCEPT !.round_number = @ + 1]
    IN  IF is_game_over(s4) THEN [s4 EXCEPT !.game_over = TRUE] ELSE s4

\* The dict resolve_round_tool returns, read from the state it leaves behind.
resolve_round_result(after, user_move, bot_move) ==
    [user_move           |-> user_move,
     bot_move            |-> bot_move,
     winner              |-> resolve_round(user_move, bot_move),
     user_score          |-> after.user_score,
     bot_score           |-> after.bot_score,
     round               |-> after.round_number,
     game_over           |-> after.game_over,
     user_bomb_available |-> ~after.user_bomb_used,
     bot_bomb_available  |-> ~after.bot_bomb_used]

\* Variant of update_game_state_tool that ignores "reset".
update_game_state_state_never(state, action) == state

\* The state update_game_state_tool leaves behind.
update_game_state_state(state, action) ==
    IF action = "reset" THEN GameState ELSE state

\* The dict update_game_state_tool returns.
state_snapshot(state) ==
    [round               |-> state.round_number,
     user_score          |-> state.user_score,
     bot_score           |-> state.bot_score,
     user_bomb_available |-> ~state.user_bomb_used,
     bot_bomb_available  |-> ~state.bot_bomb_used,
     game_over           |-> state.game_over]

----------------------------------------------------------------------------
(* The tool layer as a state machine: one action per entry point of         *)
(* game_tools.py, each acting on the module global game_state.              *)

\* No bomb has been played.
NonePlayed == [user |-> 0, bot |-> 0]

\* main() is not running.
NoCli == [pc |-> "none"]

\* No exception.
NoExc == [type |-> "none", text |-> {}, delay |-> -1]

\* handle_api_call is not running.
NoHac ==
    [pc |-> "idle", max_retries |-> 0, attempt |-> 0, calls |-> 0,
     exc |-> NoExc, slept |-> 0, outcome |-> "none"]

Init ==
    /\ game_state = GameState
    /\ call = [op |-> "import"]
    /\ ret = "None"
    /\ played = NonePlayed
    /\ cli = NoCli
    /\ hac = NoHac

\* Variant of validate_move that marks the bomb used when it validates one.
ValidateMove_spending(user_input) ==
    /\ call' = [op |-> "validate_move", user_input |-> user_input]
    /\ ret' = validate_move(game_state, user_input)
    /\ game_state' = mark_bomb_used(game_state, "user", ret'.move)
    /\ UNCHANGED aux

\* validate_move(user_input), reading the global and assigning nothing.
ValidateMove(user_input) ==
    /\ call' = [op |-> "validate_move", user_input |-> user_input]
    /\ ret' = validate_move(game_state, user_input)
    /\ UNCHANGED game_state
    /\ UNCHANGED aux

\* resolve_round_tool(user_move), user_move one of the four moves.
ResolveRoundTool(user_move) ==
    /\ game_state.round_number < MaxRounds
    /\ \E bot_move \in get_bot_move(game_state) :
          /\ call' = [op |-> "resolve_round_tool",
                      user_move |-> user_move, bot_move |-> bot_move]
          /\ game_state' = resolve_round_state(game_state, user_move, bot_move)
          /\ ret' = resolve_round_result(game_state', user_move, bot_move)
    /\ UNCHANGED aux

\* update_game_state_tool(action)
UpdateGameStateTool(action) ==
    /\ call' = [op |-> "update_game_state_tool", action |-> action]
    /\ game_state' = update_game_state_state(game_state, action)
    /\ ret' = state_snapshot(game_state')
    /\ UNCHANGED aux

\* reset_game()
ResetGame ==
    /\ call' = [op |-> "reset_game"]
    /\ game_state' = GameState
    /\ ret' = "None"
    /\ UNCHANGED aux

Next ==
    \/ \E user_input \in RawInputs : ValidateMove(user_input)
    \/ \E user_move \in Moves : ResolveRoundTool(user_move)
    \/ \E action \in ActionTags : UpdateGameStateTool(action)
    \/ ResetGame

Spec == Init /\ [][Next]_vars

----------------------------------------------------------------------------
(* The pure functions of game_logic.py applied on their own to bounded      *)
(* inputs; the Match State is not touched.                                  *)

LogicInit == Init

CallIsValidMove(move) ==
    /\ call' = [op |-> "is_valid_move", move |-> move]
    /\ ret' = is_valid_move(move)
    /\ UNCHANGED <<game_state, aux>>

CallNormalizeMove(move) ==
    /\ call' = [op |-> "normalize_move", move |-> move]
    /\ ret' = normalize_move(move)
    /\ UNCHANGED <<game_state, aux>>

CallResolveRound(user_move, bot_move) ==
    /\ call' = [op |-> "resolve_round", user_move |-> user_move, bot_move |-> bot_move]
    /\ ret' = resolve_round(user_move, bot_move)
    /\ UNCHANGED <<game_state, aux>>

LogicNext ==
    \/ \E move \in RawInputs : CallIsValidMove(move)
    \/ \E move \in RawInputs : CallNormalizeMove(move)
    \/ \E user_move \in Moves, bot_move \in Moves : CallResolveRound(user_move, bot_move)

LogicSpec == LogicInit /\ [][LogicNext]_vars

----------------------------------------------------------------------------
(* The functions of game_logic.py that take a GameState, applied on their   *)
(* own to any state a match can be in.  They work on the object they are    *)
(* given: mark_bomb_used assigns to it and returns it.                      *)

\* The Match States the tool layer can produce, up to MaxRounds rounds.
MatchStates ==
    {s \in [round_number   : 0..MaxRounds,
            user_score     : 0..MaxRounds,
            bot_score      : 0..MaxRounds,
            user_bomb_used : BOOLEAN,
            bot_bomb_used  : BOOLEAN,
            game_over      : BOOLEAN] :
        /\ s.user_score + s.bot_score <= s.round_number
        /\ s.game_over = (s.round_number >= 3)
        /\ (s.round_number = 0) => (~s.user_bomb_used /\ ~s.bot_bomb_used)}

\* Player identifiers: the two players, and one that is neither.
Players == {"user", "bot", "referee"}

UnitInit ==
    /\ game_state \in MatchStates
    /\ call = [op |-> "import"]
    /\ ret = "None"
    /\ played = NonePlayed
    /\ cli = NoCli
    /\ hac = NoHac

CallMarkBombUsed(player, move) ==
    /\ call' = [op |-> "mark_bomb_used", player |-> player, move |-> move]
    /\ game_state' = mark_bomb_used(game_state, player, move)
    /\ ret' = game_state'
    /\ UNCHANGED aux

CallCanUseBomb(player) ==
    /\ call' = [op |-> "can_use_bomb", player |-> player]
    /\ ret' = can_use_bomb(player, game_state)
    /\ UNCHANGED <<game_state, aux>>

CallGetFinalResult ==
    /\ call' = [op |-> "get_final_result"]
    /\ ret' = get_final_result(game_state)
    /\ UNCHANGED <<game_state, aux>>

UnitNext ==
    \/ \E player \in Players, move \in Moves : CallMarkBombUsed(player, move)
    \/ \E player \in Players : CallCanUseBomb(player)
    \/ CallGetFinalResult

UnitSpec == UnitInit /\ [][UnitNext]_vars

----------------------------------------------------------------------------
(* A match played by a caller that follows the protocol of the referee's    *)
(* system prompt: every user move is validated, and only a move that        *)
(* validate_move has just accepted is passed to resolve_round_tool.         *)
(* `played` counts the bombs each side has played since the last reset.     *)

\* resolve_round_tool(move), move being the one validate_move just accepted.
MatchResolve ==
    /\ call.op = "validate_move"
    /\ ret.valid
    /\ game_state.round_number < MaxRounds
    /\ \E bot_move \in get_bot_move(game_state) :
          /\ call' = [op |-> "resolve_round_tool",
                      user_move |-> ret.move, bot_move |-> bot_move]
          /\ game_state' = resolve_round_state(game_state, ret.move, bot_move)
          /\ ret' = resolve_round_result(game_state', ret.move, bot_move)
          /\ played' = [user |-> played.user + (IF ret.move = BOMB THEN 1 ELSE 0),
                        bot  |-> played.bot + (IF bot_move = BOMB THEN 1 ELSE 0)]
    /\ UNCHANGED <<cli, hac>>

\* update_game_state_tool(action); a reset starts a new match.
MatchUpdate(action) ==
    /\ call' = [op |-> "update_game_state_tool", action |-> action]
    /\ game_state' = update_game_state_state(game_state, action)
    /\ ret' = state_snapshot(game_state')
    /\ played' = IF action = "reset" THEN NonePlayed ELSE played
    /\ UNCHANGED <<cli, hac>>

\* reset_game() starts a new match.
MatchReset ==
    /\ call' = [op |-> "reset_game"]
    /\ game_state' = GameState
    /\ ret' = "None"
    /\ played' = NonePlayed
    /\ UNCHANGED <<cli, hac>>

MatchNext ==
    \/ \E user_input \in RawInputs : ValidateMove(user_input)
    \/ MatchResolve
    \/ \E action \in ActionTags : MatchUpdate(action)
    \/ MatchReset

MatchSpec == Init /\ [][MatchNext]_vars

----------------------------------------------------------------------------
(* main.py: handle_api_call *)

\* The substrings handle_api_call and main look for in str(e).
Markers == {"429", "RESOURCE_EXHAUSTED", "retryDelay"}

\* retry_delay = 30
DefaultRetryDelay == 30

\* retry_delay = 2, the minimum that is enforced
MinRetryDelay == 2

\* An exception is its type, the markers its text contains, and the whole
\* seconds the pattern 'retryDelay': '<seconds>s' captures from the text
\* (-1 when the pattern does not match).
Exceptions ==
    {e \in [type : {"ClientError", "Exception"}, text : SUBSET Markers, delay : {-1, 0, 45}] :
        ("retryDelay" \notin e.text) => e.delay = -1}

\* "429" in error_str or "RESOURCE_EXHAUSTED" in error_str or "retryDelay" in error_str
is_rate_limit(text) ==
    "429" \in text \/ "RESOURCE_EXHAUSTED" \in text \/ "retryDelay" \in text

\* The seconds handle_api_call sleeps before a retry.
retry_delay(e) ==
    IF "retryDelay" \in e.text /\ e.delay >= 0
    THEN IF e.delay < 1 THEN MinRetryDelay ELSE e.delay
    ELSE DefaultRetryDelay

\* Variant of the except clauses that retries while attempt < max_retries.
hac_on_exception_offbyone(e, attempt, max_retries) ==
    IF e.type = "ClientError"
    THEN IF is_rate_limit(e.text)
         THEN IF attempt < max_retries THEN "retry" ELSE "raise"
         ELSE "raise"
    ELSE "raise"

\* What the except clauses of handle_api_call do with exception e.
hac_on_exception(e, attempt, max_retries) ==
    IF e.type = "ClientError"
    THEN IF is_rate_limit(e.text)
         THEN IF attempt < max_retries - 1 THEN "retry" ELSE "raise"
         ELSE "raise"
    ELSE "raise"

\* for attempt in range(max_retries): try: return func(...); falling out of
\* the loop returns None.
HacFor ==
    /\ hac.pc = "for"
    /\ hac' = IF hac.attempt < hac.max_retries
              THEN [hac EXCEPT !.pc = "func", !.calls = @ + 1]
              ELSE [hac EXCEPT !.pc = "done", !.outcome = "none"]
    /\ UNCHANGED <<game_state, call, ret, played, cli>>

\* except ClientError / except Exception: sleep and go round again, or raise.
HacExcept ==
    /\ hac.pc = "except"
    /\ hac' = IF hac_on_exception(hac.exc, hac.attempt, hac.max_retries) = "retry"
              THEN [hac EXCEPT !.pc = "for", !.attempt = @ + 1, !.exc = NoExc,
                               !.slept = retry_delay(hac.exc)]
              ELSE [hac EXCEPT !.pc = "done", !.outcome = "raise"]
    /\ UNCHANGED <<game_state, call, ret, played, cli>>

----------------------------------------------------------------------------
(* handle_api_call on its own, given any max_retries >= 1 and a func that   *)
(* returns or raises.  The code runs on one thread with nothing to wait     *)
(* for but func and time.sleep, so a step that can be taken is taken.       *)

RetryInit ==
    /\ game_state = GameState
    /\ call = [op |-> "import"]
    /\ ret = "None"
    /\ played = NonePlayed
    /\ cli = NoCli
    /\ hac \in {[NoHac EXCEPT !.pc = "for", !.max_retries = n] : n \in 1..MaxRetries}

\* func returns, and handle_api_call returns its result.
FuncReturns ==
    /\ cli.pc = "none"
    /\ hac.pc = "func"
    /\ hac' = [hac EXCEPT !.pc = "done", !.outcome = "result"]
    /\ UNCHANGED <<game_state, call, ret, played, cli>>

\* func raises e.
FuncRaises(e) ==
    /\ cli.pc = "none"
    /\ hac.pc = "func"
    /\ hac' = [hac EXCEPT !.pc = "except", !.exc = e]
    /\ UNCHANGED <<game_state, call, ret, played, cli>>

RetryNext ==
    \/ HacFor
    \/ HacExcept
    \/ FuncReturns
    \/ \E e \in Exceptions : FuncRaises(e)

RetrySpec == RetryInit /\ [][RetryNext]_vars /\ WF_vars(RetryNext)

----------------------------------------------------------------------------
(* main.py and referee_agent.py: the command-line session.  The agent is    *)
(* the referee of the system prompt: asked for the rules it answers with    *)
(* text; given a move it asks for validate_move, and for resolve_round once *)
(* for a move that validate_move accepted.  Every chat.send_message may     *)
(* raise.                                                                   *)

\* def handle_api_call(func, *args, max_retries=3, **kwargs)
DefaultMaxRetries == 3

\* The call of handle_api_call, about to enter its loop.
HacCall(n) == [NoHac EXCEPT !.pc = "for", !.max_retries = n]

\* "Hello! Please explain the game rules briefly and ask me for my first move."
WelcomeMessage == <<"H", "e", "l", "l", "o", "!">>

\* ["quit", "exit", "q"]
QuitWords == {<<"q", "u", "i", "t">>, <<"e", "x", "i", "t">>, <<"q">>}

\* ["yes", "y"]
YesWords == {<<"y", "e", "s">>, <<"y">>}

\* Lines typed at the "Your move: " prompt.
CliLines ==
    {<<" ">>, <<"Q">>, ROCK, <<" ">> \o BOMB, <<"l", "i", "z", "a", "r", "d">>}

\* Lines typed at the "play again?" prompt.
CliAnswers == {<<"Y">>, <<"n", "o">>}

\* What chat.send_message raises when it raises.
SendFailures ==
    {[type |-> "ClientError", text |-> {"429"}, delay |-> -1],
     [type |-> "ClientError", text |-> {"retryDelay"}, delay |-> 0],
     [type |-> "ClientError", text |-> {}, delay |-> -1],
     [type |-> "Exception", text |-> {}, delay |-> -1]}

\* How the set-up at the top of main() turns out.
SetupOutcomes == {"no_key", "no_agent", "no_chat", "ok"}

\* main has been called: `from game_tools import reset_game, game_state` has
\* bound main's name game_state to the object the module global refers to.
CliStart ==
    [pc |-> "start", aliased |-> TRUE, main_state |-> GameState,
     message |-> <<>>, par |-> "send", entry_round |-> 0]

\* The object main's name game_state refers to: the module global's object
\* until reset_game() rebinds the global, the object it was bound to after.
main_game_state == IF cli.aliased THEN game_state ELSE cli.main_state

CliInit ==
    /\ game_state = GameState
    /\ call = [op |-> "import"]
    /\ ret = "None"
    /\ played = NonePlayed
    /\ cli = CliStart
    /\ hac = NoHac

\* main() up to the welcome message: the API key, the agent, reset_game(),
\* the chat session, and the call of handle_api_call.
MainSetup(outcome) ==
    /\ cli.pc = "start"
    /\ IF outcome \in {"no_key", "no_agent"}
       THEN /\ cli' = [cli EXCEPT !.pc = "exit"]
            /\ UNCHANGED <<game_state, call, ret, played, hac>>
       ELSE /\ call' = [op |-> "reset_game"]
            /\ game_state' = GameState
            /\ ret' = "None"
            /\ played' = NonePlayed
            /\ cli' = [cli EXCEPT !.aliased = FALSE,
                                  !.main_state = main_game_state,
                                  !.pc = IF outcome = "ok" THEN "welcome" ELSE "exit",
                                  !.message = WelcomeMessage,
                                  !.par = "send"]
            /\ hac' = IF outcome = "ok" THEN HacCall(DefaultMaxRetries) ELSE hac

\* process_agent_response: response = chat.send_message(user_message)
ParSend(e) ==
    /\ cli.pc \in {"welcome", "move"}
    /\ hac.pc = "func"
    /\ cli.par = "send"
    /\ IF e # NoExc
       THEN hac' = [hac EXCEPT !.pc = "except", !.exc = e] /\ UNCHANGED cli
       ELSE IF cli.pc = "welcome"
       THEN hac' = [hac EXCEPT !.pc = "done", !.outcome = "result"] /\ UNCHANGED cli
       ELSE cli' = [cli EXCEPT !.par = "validate"] /\ UNCHANGED hac
    /\ UNCHANGED <<game_state, call, ret, played>>

\* process_agent_response: the agent asked for validate_move; the tool runs
\* and its response is sent back.
ParValidate(e) ==
    /\ cli.pc = "move"
    /\ hac.pc = "func"
    /\ cli.par = "validate"
    /\ call' = [op |-> "validate_move", user_input |-> cli.message]
    /\ ret' = validate_move(game_state, cli.message)
    /\ UNCHANGED <<game_state, played>>
    /\ IF e # NoExc
       THEN /\ hac' = [hac EXCEPT !.pc = "except", !.exc = e]
            /\ cli' = [cli EXCEPT !.par = "send"]
       ELSE IF ret'.valid
       THEN cli' = [cli EXCEPT !.par = "resolve"] /\ UNCHANGED hac
       ELSE /\ hac' = [hac EXCEPT !.pc = "done", !.outcome = "result"]
            /\ cli' = [cli EXCEPT !.par = "send"]

\* process_agent_response: the agent asked for resolve_round with the move
\* just accepted; the tool runs and its response is sent back.
ParResolve(e) ==
    /\ cli.pc = "move"
    /\ hac.pc = "func"
    /\ cli.par = "resolve"
    /\ game_state.round_number < MaxRounds
    /\ \E bot_move \in get_bot_move(game_state) :
          /\ call' = [op |-> "resolve_round_tool",
                      user_move |-> ret.move, bot_move |-> bot_move]
          /\ game_state' = resolve_round_state(game_state, ret.move, bot_move)
          /\ ret' = resolve_round_result(game_state', ret.move, bot_move)
          /\ played' = [user |-> played.user + (IF ret.move = BOMB THEN 1 ELSE 0),
                        bot  |-> played.bot + (IF bot_move = BOMB THEN 1 ELSE 0)]
    /\ hac' = IF e # NoExc
              THEN [hac EXCEPT !.pc = "except", !.exc = e]
              ELSE [hac EXCEPT !.pc = "done", !.outcome = "result"]
    /\ cli' = [cli EXCEPT !.par = "send"]

\* main(): the welcome call has ended.
AfterWelcome ==
    /\ cli.pc = "welcome"
    /\ hac.pc = "done"
    /\ cli' = [cli EXCEPT !.pc = IF hac.outcome = "raise" THEN "exit" ELSE "loop",
                          !.message = <<>>]
    /\ hac' = NoHac
    /\ UNCHANGED <<game_state, call, ret, played>>

\* main(): while not game_state.game_over, read a line, skip an empty one,
\* leave on a quit word, and hand anything else to the agent.
MainLoop(line) ==
    /\ cli.pc = "loop"
    /\ IF main_game_state.game_over
       THEN cli' = [cli EXCEPT !.pc = "after"] /\ UNCHANGED hac
       ELSE LET user_input == strip(line) IN
            IF user_input = <<>>
            THEN UNCHANGED <<cli, hac>>
            ELSE IF lower(user_input) \in QuitWords
            THEN cli' = [cli EXCEPT !.pc = "after"] /\ UNCHANGED hac
            ELSE /\ game_state.round_number < MaxRounds
                 /\ cli' = [cli EXCEPT !.pc = "move", !.message = user_input,
                                       !.par = "send",
                                       !.entry_round = game_state.round_number]
                 /\ hac' = HacCall(DefaultMaxRetries)
    /\ UNCHANGED <<game_state, call, ret, played>>

\* main(): the call for a move has ended, with the agent's text or with an
\* exception; then `if game_state.game_over: break`.
AfterMove ==
    /\ cli.pc = "move"
    /\ hac.pc = "done"
    /\ cli' = [cli EXCEPT
                 !.pc = IF hac.outcome = "raise"
                        THEN IF "429" \in hac.exc.text \/ "RESOURCE_EXHAUSTED" \in hac.exc.text
                             THEN "after" ELSE "loop"
                        ELSE IF main_game_state.game_over THEN "after" ELSE "loop",
                 !.message = <<>>,
                 !.entry_round = 0]
    /\ hac' = NoHac
    /\ UNCHANGED <<game_state, call, ret, played>>

\* main(): after the loop, the offer to play again.
AfterLoop(answer) ==
    /\ cli.pc = "after"
    /\ IF main_game_state.game_over /\ lower(strip(answer)) \in YesWords
       THEN /\ call' = [op |-> "reset_game"]
            /\ game_state' = GameState
            /\ ret' = "None"
            /\ played' = NonePlayed
            /\ cli' = [cli EXCEPT !.pc = "start"]
       ELSE /\ cli' = [cli EXCEPT !.pc = "exit"]
            /\ UNCHANGED <<game_state, call, ret, played>>
    /\ UNCHANGED hac

CliNext ==
    \/ \E outcome \in SetupOutcomes : MainSetup(outcome)
    \/ HacFor
    \/ HacExcept
    \/ \E e \in SendFailures \cup {NoExc} : ParSend(e)
    \/ \E e \in SendFailures \cup {NoExc} : ParValidate(e)
    \/ \E e \in SendFailures \cup {NoExc} : ParResolve(e)
    \/ AfterWelcome
    \/ \E line \in CliLines : MainLoop(line)
    \/ AfterMove
    \/ \E answer \in CliAnswers : AfterLoop(answer)

CliSpec == CliInit /\ [][CliNext]_vars

----------------------------------------------------------------------------
(* Properties *)

\* Whether the call recorded in c replaced the Match State by a fresh one.
IsResetCall(c) ==
    \/ c.op = "reset_game"
    \/ c.op = "update_game_state_tool" /\ c.action = "reset"

\* C1: in every reachable state game_over is true exactly when
\* round_number >= 3.
C1_GameOverIffRoundLimit ==
    game_state.game_over <=> (game_state.round_number >= 3)

\* The third round has just been resolved and the match is over.
C1_Witness ==
    /\ call.op = "resolve_round_tool"
    /\ game_state.round_number = 3
    /\ game_state.game_over

\* C2: in every reachable state the two scores are non-negative and sum to at
\* most round_number.
C2_ScoresBoundedByRounds ==
    /\ game_state.user_score >= 0
    /\ game_state.bot_score >= 0
    /\ game_state.user_score + game_state.bot_score <= game_state.round_number

\* A drawn round has just been resolved in a match where both sides have
\* scored, so the sum of the scores is below the round number.
C2_Witness ==
    /\ call.op = "resolve_round_tool"
    /\ ret.winner = "draw"
    /\ game_state.user_score > 0
    /\ game_state.bot_score > 0
    /\ game_state.user_score + game_state.bot_score < game_state.round_number

\* C3: every Resolve step adds exactly 1 to round_number, adds exactly 1 to
\* the score of the side resolve_round names and nothing to the other (nothing
\* to either on a draw), records the bombs played, and returns the round
\* number and the game_over value of the just-incremented round.
C3_ResolveStep ==
    [][ call'.op = "resolve_round_tool" =>
          LET winner == resolve_round(call'.user_move, call'.bot_move)
              round  == game_state.round_number + 1
          IN  /\ game_state'.round_number = round
              /\ game_state'.user_score =
                     game_state.user_score + (IF winner = "user" THEN 1 ELSE 0)
              /\ game_state'.bot_score =
                     game_state.bot_score + (IF winner = "bot" THEN 1 ELSE 0)
              /\ game_state'.user_bomb_used =
                     (game_state.user_bomb_used \/ call'.user_move = BOMB)
              /\ game_state'.bot_bomb_used =
                     (game_state.bot_bomb_used \/ call'.bot_move = BOMB)
              /\ game_state'.game_over = (round >= 3)
              /\ ret'.winner = winner
              /\ ret'.round = round
              /\ ret'.game_over = (round >= 3)
              /\ ret'.user_score = game_state'.user_score
              /\ ret'.bot_score = game_state'.bot_score
              /\ ret'.user_bomb_available = ~game_state'.user_bomb_used
              /\ ret'.bot_bomb_available = ~game_state'.bot_bomb_used
      ]_vars

\* The third Resolve of a match returned round 3 and game_over true, with the
\* bot winning the round on a bomb.
C3_Witness ==
    /\ call.op = "resolve_round_tool"
    /\ call.bot_move = BOMB
    /\ ret.winner = "bot"
    /\ ret.round = 3
    /\ ret.game_over
    /\ game_state.bot_score >= 1
    /\ ~ret.bot_bomb_available

\* C4: a step that is not a reset never turns a bomb-used flag from true to
\* false, and a flag turns from false to true only in a Resolve step in which
\* that side's move is bomb.
C4_BombFlagsMonotone ==
    [][ /\ (game_state.user_bomb_used /\ ~IsResetCall(call')) => game_state'.user_bomb_used
        /\ (game_state.bot_bomb_used /\ ~IsResetCall(call')) => game_state'.bot_bomb_used
        /\ (~game_state.user_bomb_used /\ game_state'.user_bomb_used) =>
               (call'.op = "resolve_round_tool" /\ call'.user_move = BOMB)
        /\ (~game_state.bot_bomb_used /\ game_state'.bot_bomb_used) =>
               (call'.op = "resolve_round_tool" /\ call'.bot_move = BOMB)
      ]_vars

\* Both bombs are spent and a later round, in which neither side played bomb,
\* has been resolved.
C4_Witness ==
    /\ call.op = "resolve_round_tool"
    /\ call.user_move # BOMB
    /\ call.bot_move # BOMB
    /\ game_state.user_bomb_used
    /\ game_state.bot_bomb_used

\* rock beats scissors, scissors beats paper, paper beats rock
Beats == {<<ROCK, SCISSORS>>, <<SCISSORS, PAPER>>, <<PAPER, ROCK>>}

\* C5: for every pair of the four moves resolve_round returns draw on equal
\* moves, the bomb's side when exactly one side played bomb, and otherwise the
\* winner under rock > scissors > paper > rock; every pair has a result.
C5_ResolveRoundTable ==
    call.op = "resolve_round" =>
        LET u == call.user_move
            b == call.bot_move
        IN  /\ ret \in Outcomes
            /\ (u = b) => ret = "draw"
            /\ (u = BOMB /\ b # BOMB) => ret = "user"
            /\ (b = BOMB /\ u # BOMB) => ret = "bot"
            /\ (<<u, b>> \in Beats) => ret = "user"
            /\ (<<b, u>> \in Beats) => ret = "bot"

\* resolve_round was applied to bomb against bomb.
C5_Witness ==
    /\ call.op = "resolve_round"
    /\ call.user_move = BOMB
    /\ call.bot_move = BOMB
    /\ ret = "draw"

\* C6: for distinct moves exactly one of resolve_round(m1, m2) and
\* resolve_round(m2, m1) is "user" and the other is "bot"; a draw stays a draw
\* when the arguments are swapped.
C6_ResolveRoundAntiSymmetric ==
    call.op = "resolve_round" =>
        LET swapped == resolve_round(call.bot_move, call.user_move)
        IN  /\ (call.user_move # call.bot_move) =>
                   (ret # swapped /\ {ret, swapped} = {"user", "bot"})
            /\ (ret = "draw") => (swapped = "draw")

\* resolve_round was applied to paper against rock: the user wins, and the
\* swapped call is a bot win.
C6_Witness ==
    /\ call.op = "resolve_round"
    /\ call.user_move = PAPER
    /\ call.bot_move = ROCK
    /\ ret = "user"
    /\ resolve_round(ROCK, PAPER) = "bot"

\* The contiguous pieces of raw.
Pieces(raw) == {SubSeq(raw, i, j) : i \in 1..(Len(raw) + 1), j \in 0..Len(raw)}

\* core is raw without its leading and trailing whitespace.
IsTrimOf(core, raw) ==
    \E i \in 1..(Len(raw) + 1), j \in 0..Len(raw) :
        /\ core = SubSeq(raw, i, j)
        /\ \A k \in 1..(i - 1) : raw[k] \in Whitespace
        /\ \A k \in (j + 1)..Len(raw) : raw[k] \in Whitespace
        /\ core # <<>> => (core[1] \notin Whitespace /\ core[Len(core)] \notin Whitespace)

\* t is s with every cased letter in lowercase.
IsLowerOf(t, s) ==
    /\ Len(t) = Len(s)
    /\ \A k \in 1..Len(s) :
          /\ lower_char(t[k]) = lower_char(s[k])
          /\ t[k] \notin DOMAIN ToLower

\* C7: validate_move returns valid:true exactly when the trimmed, lowercased
\* input is one of the four move names and (it is not bomb or user_bomb_used is
\* false), and the move it returns is the trimmed lowercase form of the input.
C7_ValidateContract ==
    call.op = "validate_move" =>
        /\ \E core \in Pieces(call.user_input) :
              /\ IsTrimOf(core, call.user_input)
              /\ IsLowerOf(ret.move, core)
        /\ ret.valid <=> /\ ret.move \in Moves
                         /\ (ret.move # BOMB \/ ~game_state.user_bomb_used)

\* A padded, upper-case bomb was rejected because the user's bomb is spent.
C7_Witness ==
    /\ call.op = "validate_move"
    /\ call.user_input = <<" ">> \o upper(BOMB) \o <<"\t">>
    /\ game_state.user_bomb_used
    /\ ret.move = BOMB
    /\ ~ret.valid

\* C8: a Validate step leaves round_number, both scores, both bomb flags and
\* game_over as they were, whatever the input.
C8_ValidateChangesNothing ==
    [][ call'.op = "validate_move" => game_state' = game_state ]_vars

\* A spent bomb was rejected in the middle of a match, and the match is where
\* it was.
C8_Witness ==
    /\ call.op = "validate_move"
    /\ ret.move = BOMB
    /\ ~ret.valid
    /\ game_state.user_bomb_used
    /\ game_state.round_number = 2
    /\ ~game_state.game_over

\* C9 as stated: is_valid_move(raw) is true exactly when the trimmed,
\* case-insensitive input is one of the four move names, so a move name with
\* whitespace around it is valid.
C9_IsValidMoveTrims ==
    call.op = "is_valid_move" =>
        /\ ret <=> \E core \in Pieces(call.move) :
                       /\ IsTrimOf(core, call.move)
                       /\ \E m \in Moves : IsLowerOf(m, core)
        /\ (call.move = <<" ">> \o upper(ROCK) \o <<"\t">>) => ret

\* C9 amended: is_valid_move(raw) is true exactly when the input, lowercased
\* but not trimmed, is one of the four move names; a move name with whitespace
\* around it is not valid.
C9_IsValidMoveNoTrim ==
    call.op = "is_valid_move" =>
        /\ ret <=> \E m \in Moves : IsLowerOf(m, call.move)
        /\ (call.move # <<>> /\ (Head(call.move) \in Whitespace
                                 \/ call.move[Len(call.move)] \in Whitespace)) => ~ret

\* is_valid_move was applied to an upper-case ROCK with whitespace around it
\* and returned false.
C9_Witness ==
    /\ call.op = "is_valid_move"
    /\ call.move = <<" ">> \o upper(ROCK) \o <<"\t">>
    /\ ret = FALSE

\* C10: a reset step (reset_game, or update_game_state_tool("reset")) leaves
\* the initial Match State, and the tool's snapshot shows it; every other
\* update_game_state_tool step changes no field and returns the snapshot of
\* the current state.
C10_ResetAndQuery ==
    [][ /\ IsResetCall(call') =>
              game_state' = [round_number |-> 0, user_score |-> 0, bot_score |-> 0,
                             user_bomb_used |-> FALSE, bot_bomb_used |-> FALSE,
                             game_over |-> FALSE]
        /\ (call'.op = "update_game_state_tool" /\ call'.action = "reset") =>
              ret' = [round |-> 0, user_score |-> 0, bot_score |-> 0,
                      user_bomb_available |-> TRUE, bot_bomb_available |-> TRUE,
                      game_over |-> FALSE]
        /\ (call'.op = "update_game_state_tool" /\ call'.action # "reset") =>
              /\ game_state' = game_state
              /\ ret' = [round |-> game_state.round_number,
                         user_score |-> game_state.user_score,
                         bot_score |-> game_state.bot_score,
                         user_bomb_available |-> ~game_state.user_bomb_used,
                         bot_bomb_available |-> ~game_state.bot_bomb_used,
                         game_over |-> game_state.game_over]
      ]_vars

\* update_game_state_tool("Reset"), a tag that is not "reset", was called
\* after the match ended and returned the finished match.
C10_Witness ==
    /\ call.op = "update_game_state_tool"
    /\ call.action = "Reset"
    /\ ret.round = 3
    /\ ret.game_over
    /\ ~ret.user_bomb_available
    /\ game_state.round_number = 3

\* C11: a Resolve step taken when game_over is already true still adds 1 to
\* round_number, credits the round's winner, records the bombs played, and
\* leaves game_over true.
C11_ResolveAfterGameOver ==
    [][ (game_state.game_over /\ call'.op = "resolve_round_tool") =>
          LET winner == ret'.winner IN
          /\ game_state'.round_number = game_state.round_number + 1
          /\ game_state'.user_score =
                 game_state.user_score + (IF winner = "user" THEN 1 ELSE 0)
          /\ game_state'.bot_score =
                 game_state.bot_score + (IF winner = "bot" THEN 1 ELSE 0)
          /\ (call'.user_move = BOMB) => game_state'.user_bomb_used
          /\ (call'.bot_move = BOMB) => game_state'.bot_bomb_used
          /\ game_state'.game_over
          /\ ret'.round = game_state.round_number + 1
      ]_vars

\* A fourth round was resolved after the match had ended: the user won it with
\* a first bomb, and the match is still over.
C11_Witness ==
    /\ call.op = "resolve_round_tool"
    /\ call.user_move = BOMB
    /\ ret.winner = "user"
    /\ game_state.round_number = 4
    /\ game_state.user_score = 4
    /\ game_state.user_bomb_used
    /\ game_state.game_over

\* C12: the three-round scenario.  From the initial state, rock against
\* scissors is a user win, 1-0, round 1, not over; then bomb against paper is a
\* user win, the user's bomb spent, 2-0, round 2, not over; then paper against
\* bomb is a bot win, the bot's bomb spent, 2-1, round 3, over, and the final
\* result is "User wins".
C12_Scenario ==
    [][ LET S0 == [round_number |-> 0, user_score |-> 0, bot_score |-> 0,
                   user_bomb_used |-> FALSE, bot_bomb_used |-> FALSE, game_over |-> FALSE]
            S1 == [round_number |-> 1, user_score |-> 1, bot_score |-> 0,
                   user_bomb_used |-> FALSE, bot_bomb_used |-> FALSE, game_over |-> FALSE]
            S2 == [round_number |-> 2, user_score |-> 2, bot_score |-> 0,
                   user_bomb_used |-> TRUE, bot_bomb_used |-> FALSE, game_over |-> FALSE]
            S3 == [round_number |-> 3, user_score |-> 2, bot_score |-> 1,
                   user_bomb_used |-> TRUE, bot_bomb_used |-> TRUE, game_over |-> TRUE]
            Resolved(u, b) == /\ call'.op = "resolve_round_tool"
                              /\ call'.user_move = u
                              /\ call'.bot_move = b
        IN
        /\ (game_state = S0 /\ Resolved(ROCK, SCISSORS)) =>
              /\ game_state' = S1
              /\ ret'.winner = "user"
              /\ <<ret'.user_score, ret'.bot_score, ret'.round, ret'.game_over>>
                     = <<1, 0, 1, FALSE>>
        /\ (game_state = S1 /\ Resolved(BOMB, PAPER)) =>
              /\ game_state' = S2
              /\ ret'.winner = "user"
              /\ <<ret'.user_score, ret'.bot_score, ret'.round, ret'.game_over>>
                     = <<2, 0, 2, FALSE>>
              /\ ~ret'.user_bomb_available
        /\ (game_state = S2 /\ Resolved(PAPER, BOMB)) =>
              /\ game_state' = S3
              /\ ret'.winner = "bot"
              /\ <<ret'.user_score, ret'.bot_score, ret'.round, ret'.game_over>>
                     = <<2, 1, 3, TRUE>>
              /\ ~ret'.bot_bomb_available
              /\ get_final_result(game_state') = "User wins"
      ]_vars

\* The scenario's last round has been resolved: paper lost to the bot's bomb
\* and the match ended 2-1 with both bombs spent.
C12_Witness ==
    /\ call.op = "resolve_round_tool"
    /\ call.user_move = PAPER
    /\ call.bot_move = BOMB
    /\ ret.winner = "bot"
    /\ game_state = [round_number |-> 3, user_score |-> 2, bot_score |-> 1,
                     user_bomb_used |-> TRUE, bot_bomb_used |-> TRUE, game_over |-> TRUE]
    /\ get_final_result(game_state) = "User wins"

\* C13: mark_bomb_used with a move that is not bomb changes no field; with
\* bomb it sets the named player's flag and no other field; a second
\* application with bomb for the same player changes nothing more.
C13_MarkBombUsed ==
    [][ call'.op = "mark_bomb_used" =>
          /\ ret' = game_state'
          /\ (call'.move # BOMB) => game_state' = game_state
          /\ (call'.move = BOMB) =>
                /\ game_state'.user_bomb_used =
                       (game_state.user_bomb_used \/ call'.player = "user")
                /\ game_state'.bot_bomb_used =
                       (game_state.bot_bomb_used \/ call'.player = "bot")
                /\ game_state'.round_number = game_state.round_number
                /\ game_state'.user_score = game_state.user_score
                /\ game_state'.bot_score = game_state.bot_score
                /\ game_state'.game_over = game_state.game_over
                /\ mark_bomb_used(game_state', call'.player, call'.move) = game_state'
      ]_vars

\* mark_bomb_used was applied with bomb for the bot in the middle of a match:
\* the bot's flag is set, the user's is not.
C13_Witness ==
    /\ call.op = "mark_bomb_used"
    /\ call.player = "bot"
    /\ call.move = BOMB
    /\ game_state.bot_bomb_used
    /\ ~game_state.user_bomb_used
    /\ game_state.round_number = 2
    /\ game_state.user_score = 1

\* C14: get_final_result returns "User wins" when user_score > bot_score,
\* "Bot wins" when bot_score > user_score and "Draw" when they are equal, at
\* any round and whatever game_over is, and changes no field.
C14_FinalResult ==
    [][ call'.op = "get_final_result" =>
          /\ game_state' = game_state
          /\ (game_state.user_score > game_state.bot_score) => ret' = "User wins"
          /\ (game_state.bot_score > game_state.user_score) => ret' = "Bot wins"
          /\ (game_state.user_score = game_state.bot_score) => ret' = "Draw"
      ]_vars

\* get_final_result was applied before the end of a match that stands 1-1.
C14_Witness ==
    /\ call.op = "get_final_result"
    /\ ret = "Draw"
    /\ game_state.user_score = 1
    /\ game_state.bot_score = 1
    /\ game_state.round_number = 2
    /\ ~game_state.game_over

\* C15: can_use_bomb is true exactly for "user" with user_bomb_used false and
\* for "bot" with bot_bomb_used false; for any other player it is false; it
\* changes no field.
C15_CanUseBomb ==
    [][ call'.op = "can_use_bomb" =>
          /\ game_state' = game_state
          /\ ret' \in BOOLEAN
          /\ ret' <=> \/ call'.player = "user" /\ ~game_state.user_bomb_used
                      \/ call'.player = "bot" /\ ~game_state.bot_bomb_used
      ]_vars

\* can_use_bomb was asked about a player that is neither user nor bot, with
\* both bombs unspent, and answered false.
C15_Witness ==
    /\ call.op = "can_use_bomb"
    /\ call.player = "referee"
    /\ ~game_state.user_bomb_used
    /\ ~game_state.bot_bomb_used
    /\ ret = FALSE

\* C16: in a match whose every resolved user move was accepted by
\* validate_move immediately before, each side plays bomb in at most one round
\* between two resets, and get_bot_move cannot return bomb once the bot's bomb
\* is spent.
C16_BombAtMostOnce ==
    /\ played.user <= 1
    /\ played.bot <= 1
    /\ game_state.bot_bomb_used => BOMB \notin get_bot_move(game_state)

\* Four rounds have been resolved since the last reset; each side played bomb
\* in exactly one of them.
C16_Witness ==
    /\ call.op = "resolve_round_tool"
    /\ game_state.round_number = 4
    /\ played.user = 1
    /\ played.bot = 1
    /\ game_state.user_bomb_used
    /\ game_state.bot_bomb_used

\* C19: handle_api_call with max_retries >= 1 calls func at most max_retries
\* times and ends; it ends with func's result as soon as a call succeeds; an
\* exception that is not a rate-limit ClientError is raised after that one
\* call; a rate-limit ClientError is retried while calls remain and raised on
\* the last one; it never ends by falling out of the loop with None.
C19_RetryBoundedAndEnds ==
    /\ [](/\ hac.calls <= hac.max_retries
          /\ (hac.pc = "done") =>
                /\ hac.outcome \in {"result", "raise"}
                /\ (hac.outcome = "result") => hac.exc = NoExc
                /\ (hac.outcome = "raise") => hac.exc \in Exceptions
                /\ (hac.outcome = "raise" /\ hac.exc.type = "ClientError"
                        /\ hac.exc.text # {}) => hac.calls = hac.max_retries)
    /\ [][ /\ (hac.pc = "func" /\ hac'.pc = "done") =>
                 (hac'.outcome = "result" /\ hac'.calls = hac.calls)
           /\ (hac.pc = "except" /\ hac' # hac) =>
                 IF hac.exc.type = "ClientError" /\ hac.exc.text # {}
                        /\ hac.calls < hac.max_retries
                 THEN hac'.pc = "for" /\ hac'.slept >= 1
                 ELSE /\ hac'.pc = "done"
                      /\ hac'.outcome = "raise"
                      /\ hac'.exc = hac.exc
                      /\ hac'.calls = hac.calls
         ]_vars
    /\ <>(hac.pc = "done")

\* handle_api_call with max_retries 3 raised a rate-limit ClientError after
\* three calls of func, having slept the enforced minimum before the last.
C19_Witness ==
    /\ hac.pc = "done"
    /\ hac.outcome = "raise"
    /\ hac.max_retries = 3
    /\ hac.calls = 3
    /\ hac.exc.type = "ClientError"
    /\ "429" \in hac.exc.text
    /\ hac.slept = 2

\* C17: in a command-line session no move is read and handed to the agent
\* once three rounds have been resolved since main's reset_game(), and
\* round_number never exceeds 3.
C17_LoopStopsWhenMatchOver ==
    (cli.pc # "none") =>
        /\ (cli.pc = "move") => cli.entry_round < 3
        /\ game_state.round_number <= 3

\* C18: while one user input is being handled, round_number is at most one
\* more than it was when the input was read.
C18_OneRoundPerInput ==
    (cli.pc = "move") => game_state.round_number - cli.entry_round <= 1

====
